---------------------------- MODULE Spec2Model ----------------------------
(***************************************************************************)
(* A model of the bw-patcher binary-patch engine: the pattern matcher,     *)
(* the checksum kernels, the LKS32 literal-pool helper, the chip-family    *)
(* checksum fixers and the patch orchestrator (bwpatcher/utils.py,         *)
(* core.py, core_lks32.py, core_es32.py, core_n32.py).                     *)
(*                                                                         *)
(* Buffers are sequences of bytes (0..255).  Offsets are the 0-based       *)
(* offsets of the Python source; At, PySlice and PyAssign carry Python's   *)
(* indexing and slicing rules.                                             *)
(***************************************************************************)
EXTENDS Integers, Sequences, FiniteSets, TLC

VARIABLES
    pc,             \* position of the running call / session
    args,           \* arguments of the pure function under call
    ret,            \* its result; in a session, the exception that left
                    \* patch_firmware ("" while there is none)
    model,          \* patch_firmware: model name
    patches,        \* patch_firmware: the token list as given by the caller
    web,            \* patch_firmware: web flag
    input,          \* patch_firmware: the input bytes
    data,           \* patcher.data
    was_encrypted,  \* CoreN32Patcher.was_encrypted
    image_header,   \* CoreN32Patcher.image_header (None or bytes)
    image_footer,   \* CoreN32Patcher.image_footer (None or bytes)
    idx,            \* position of the for loop over the token list
    errors,         \* patch_firmware: errors
    calls,          \* the capabilities invoked so far, in order
    last,           \* patcher.data before the latest capability call
    output          \* the returned buffer

vars == <<pc, args, ret, model, patches, web, input, data, was_encrypted,
          image_header, image_footer, idx, errors, calls, last, output>>

sessionVars == <<model, patches, web, input, data, was_encrypted,
                 image_header, image_footer, idx, errors, calls, last, output>>

callVars == <<args, ret>>

-----------------------------------------------------------------------------
(* Bounds of the model.                                                    *)

MaxData == 4        \* find_pattern harness: longest buffer
MaxSig == 2         \* find_pattern harness: longest signature
MaxIt == 3          \* find_pattern harness: largest max_iterations
MaxLdrOffset == 7   \* _safe_ldr harness: largest ldr_offset
MaxDst == 1035      \* _safe_ldr harness: largest min_dst
MaxBuf == 3         \* checksum-kernel harness: longest buffer
MaxPatches == 2     \* patch_firmware: longest token list
MaxFooter == 1      \* patch_firmware: longest footer of an N32 full image
MaxSpeedPatches == 2  \* speed-patch sessions: longest token list
MaxVersionLen == 5    \* fake_drv_version harness: longest version string
MaxPieces == 3      \* region_free harness: most pieces of a buffer
MaxPrefix == 2      \* motor_start_speed harness: bytes before the signature
MaxGap == 2         \* mi5 firmwares: longest code between two signatures

-----------------------------------------------------------------------------
(* Python values and sequence operations.                                  *)

\* Python's None (an absent argument, a wildcard element of a signature).
None == -1

Min(a, b) == IF a < b THEN a ELSE b
Max(a, b) == IF a > b THEN a ELSE b

\* a ^ b bit by bit, and the table of it for two bytes.
RECURSIVE XorBits(_, _)
XorBits(a, b) ==
    IF a = 0 THEN b
    ELSE IF b = 0 THEN a
    ELSE ((a + b) % 2) + 2 * XorBits(a \div 2, b \div 2)

XorTable == [a \in 0..255 |-> [b \in 0..255 |-> XorBits(a, b)]]

\* a ^ b, byte by byte.
RECURSIVE BitXor(_, _)
BitXor(a, b) ==
    IF a < 256 /\ b < 256 THEN XorTable[a][b]
    ELSE XorTable[a % 256][b % 256] + 256 * BitXor(a \div 256, b \div 256)

RECURSIVE BitAnd(_, _)
BitAnd(a, b) ==
    IF a = 0 \/ b = 0 THEN 0
    ELSE (a % 2) * (b % 2) + 2 * BitAnd(a \div 2, b \div 2)

\* s[i] for a 0-based index i within range.
At(s, i) == s[i + 1]

\* A slice bound normalised as Python does (negative counts from the end).
NormIndex(i, n) == IF i < 0 THEN Max(i + n, 0) ELSE Min(i, n)

\* s[a:b]
PySlice(s, a, b) ==
    LET lo == NormIndex(a, Len(s))
        hi == NormIndex(b, Len(s))
    IN  IF hi <= lo THEN << >> ELSE SubSeq(s, lo + 1, hi)

\* s[a:b] = v  (the result; the length changes when Len(v) differs from the
\* length of the slice, e.g. when the slice reaches past the end).
PyAssign(s, a, b, v) ==
    LET lo == NormIndex(a, Len(s))
        hi == Max(NormIndex(b, Len(s)), lo)
    IN  SubSeq(s, 1, lo) \o v \o SubSeq(s, hi + 1, Len(s))

\* int.from_bytes(b, 'big') and int.from_bytes(b, 'little').  A value of
\* 2^24 or more is given as Huge: the sizes read from an image are only
\* compared with buffer lengths and used as slice bounds, where every value
\* past the end of the buffer behaves alike.
Huge == 2^24

RECURSIVE FromBytesBig(_)
FromBytesBig(b) ==
    IF Len(b) = 0 THEN 0
    ELSE LET hi == FromBytesBig(SubSeq(b, 1, Len(b) - 1))
         IN  IF hi >= Huge \div 256 THEN Huge ELSE 256 * hi + b[Len(b)]

FromBytesLittle(b) == FromBytesBig([j \in 1..Len(b) |-> b[Len(b) + 1 - j]])

\* n.to_bytes(k, 'big') and n.to_bytes(k, 'little') for 0 <= n < 256^k
RECURSIVE ToBytesLittle(_, _)
ToBytesLittle(n, k) ==
    IF k = 0 THEN << >> ELSE <<n % 256>> \o ToBytesLittle(n \div 256, k - 1)

RECURSIVE ToBytesBig(_, _)
ToBytesBig(n, k) ==
    IF k = 0 THEN << >> ELSE ToBytesBig(n \div 256, k - 1) \o <<n % 256>>

SeqsUpTo(S, n) == UNION {[1..k -> S] : k \in 0..n}

-----------------------------------------------------------------------------
(* utils.find_pattern                                                      *)

\* The signature after "signature[i] &= mask[i]"; applying & to a wildcard
\* (None) is a TypeError.
MaskHitsWildcard(signature, mask) ==
    mask # << >> /\ \E j \in 1..Len(signature) : signature[j] = None

MaskedSignature(signature, mask) ==
    IF mask = << >> THEN signature
    ELSE [j \in 1..Len(signature) |-> BitAnd(signature[j], mask[j])]

\* The inner while loop at buffer index i, from element `matches` on:
\* "match" when every element matched, "mismatch" at the first element that
\* differs, "IndexError" when data[i+matches] is read past the end.
RECURSIVE MatchFrom(_, _, _, _, _)
MatchFrom(buf, signature, mask, i, matches) ==
    IF signature[matches + 1] = None
       THEN IF matches + 1 = Len(signature) THEN "match"
            ELSE MatchFrom(buf, signature, mask, i, matches + 1)
    ELSE IF i + matches >= Len(buf) THEN "IndexError"
    ELSE IF signature[matches + 1] =
              (IF mask = << >> THEN At(buf, i + matches)
               ELSE BitAnd(At(buf, i + matches), mask[matches + 1]))
       THEN IF matches + 1 = Len(signature) THEN "match"
            ELSE MatchFrom(buf, signature, mask, i, matches + 1)
    ELSE "mismatch"

\* The stop of "for i in range(start, stop)".
FindStop(buf, signature, start, maxit) ==
    IF maxit # None THEN start + maxit ELSE Len(buf) - Len(signature)

\* The for loop over range(start, stop): it ends at the first index where
\* the while loop does not end in a mismatch, or runs out.
FindLoop(buf, signature, mask, start, stop) ==
    LET ends == {i \in start..(stop - 1) :
                    MatchFrom(buf, signature, mask, i, 0) # "mismatch"}
        first == CHOOSE i \in ends : \A k \in ends : i <= k
    IN  IF ends = {} THEN [status |-> "SignatureException", index |-> None]
        ELSE IF MatchFrom(buf, signature, mask, first, 0) = "match"
           THEN [status |-> "ok", index |-> first]
        ELSE [status |-> "IndexError", index |-> None]

\* find_pattern(data, signature, mask, start, maxit); mask << >> is no mask,
\* start is already defaulted to 0 by the caller of this operator.
find_pattern(buf, signature, mask, start, maxit) ==
    IF mask # << >> /\ Len(mask) # Len(signature)
       THEN [status |-> "AssertionError", index |-> None]
    ELSE IF MaskHitsWildcard(signature, mask)
       THEN [status |-> "TypeError", index |-> None]
    ELSE FindLoop(buf, MaskedSignature(signature, mask), mask, start,
                  FindStop(buf, signature, start, maxit))

\* find_pattern(data, sig) and find_pattern(data, sig, start=s)
Find(buf, signature) == find_pattern(buf, signature, << >>, 0, None)
FindAt(buf, signature, start) == find_pattern(buf, signature, << >>, start, None)

-----------------------------------------------------------------------------
(* LKS32Patcher._safe_ldr                                                  *)

\* x & ~0x3 for x >= 0
AlignDown4(x) == x - (x % 4)

\* int(math.ceil(x / 4.0)) for x >= 0
CeilDiv4(x) == (x + 3) \div 4

PcBase(ldr_offset) == AlignDown4(ldr_offset) + 4

SafeLdrNoRoundUp(ldr_offset, dst_ofs) ==
    LET pc_base == PcBase(ldr_offset)
        min_off == dst_ofs - pc_base
    IN  IF min_off < 0
           THEN [raised |-> TRUE, lit |-> None, imm |-> None]
        ELSE [raised |-> FALSE,
              lit |-> pc_base + (min_off \div 4) * 4,
              imm |-> AlignDown4(min_off)]

_safe_ldr(ldr_offset, dst_ofs) ==
    LET pc_base == PcBase(ldr_offset)
        min_off0 == dst_ofs - pc_base
        min_off == IF min_off0 % 4 # 0 THEN AlignDown4(min_off0) + 4
                   ELSE min_off0
        ldr_ofs_val == CeilDiv4(min_off)
    IN  IF min_off0 < 0
           THEN [raised |-> TRUE, lit |-> None, imm |-> None]
        ELSE [raised |-> FALSE,
              lit |-> pc_base + ldr_ofs_val * 4,
              imm |-> min_off]

-----------------------------------------------------------------------------
(* Checksum kernels                                                        *)

CHK_CONST == 4129              \* 0x1021 (the low 16 bits of poly 0x11021)

\* The polynomial 0x04C11DB7 (the low 32 bits of 0x104C11DB7) and the initial
\* register 0xFFFFFFFF, as four bytes, most significant first.
Crc32Poly == <<4, 193, 29, 183>>
Crc32Init == <<255, 255, 255, 255>>

\* One shift of the 16-bit non-reflected CRC register.
Crc16Shift(reg, poly) ==
    IF reg >= 32768 THEN BitXor((reg * 2) % 65536, poly)
    ELSE (reg * 2) % 65536

\* n shifts.  (Here and below a test such as "r >= 0", which always holds,
\* has the register evaluated before the next step is taken, and the loop
\* over the bytes lo..hi of a range is taken in two halves, to keep the
\* evaluation shallow.)
RECURSIVE Crc16Shifts(_, _, _)
Crc16Shifts(reg, poly, n) ==
    IF n = 0 THEN reg
    ELSE LET r == Crc16Shift(reg, poly)
         IN  IF r >= 0 THEN Crc16Shifts(r, poly, n - 1) ELSE r

\* checksum(param_1, param_2) of Mi4pro2ndPatcher.__compute_checksum: the
\* byte enters at the top of the 16-bit register, then eight shifts.
checksum(param_1, param_2) ==
    Crc16Shifts(BitXor(param_2 * 256, param_1), CHK_CONST, 8)

\* crcmod.mkCrcFun(poly=0x11021, initCrc=0, rev=False, xorOut=0)(bytes)
RECURSIVE Crc16CcittRange(_, _, _, _)
Crc16CcittRange(bytes, lo, hi, crc) ==
    IF lo > hi THEN crc
    ELSE IF lo = hi THEN checksum(crc, bytes[lo])
    ELSE LET c == Crc16CcittRange(bytes, lo, (lo + hi) \div 2, crc)
         IN  IF c >= 0 THEN Crc16CcittRange(bytes, (lo + hi) \div 2 + 1, hi, c)
             ELSE c

Crc16Ccitt(bytes, crc) == Crc16CcittRange(bytes, 1, Len(bytes), crc)

\* The 32-bit register is kept as four bytes, most significant first.
XorBytes(a, b) == [j \in 1..Len(a) |-> BitXor(a[j], b[j])]

Crc32Shift(r) ==
    LET s == <<((r[1] * 2) % 256) + (r[2] \div 128),
               ((r[2] * 2) % 256) + (r[3] \div 128),
               ((r[3] * 2) % 256) + (r[4] \div 128),
               (r[4] * 2) % 256>>
    IN  IF r[1] >= 128 THEN XorBytes(s, Crc32Poly) ELSE s

RECURSIVE Crc32Shifts(_, _)
Crc32Shifts(r, n) ==
    IF n = 0 THEN r
    ELSE LET s == Crc32Shift(r)
         IN  IF Len(s) = 4 THEN Crc32Shifts(s, n - 1) ELSE s

\* crcmod.mkCrcFun(0x104C11DB7, initCrc=0xFFFFFFFF, rev=False)(bytes), the
\* register most significant byte first.
RECURSIVE Crc32Range(_, _, _, _)
Crc32Range(bytes, lo, hi, r) ==
    IF lo > hi THEN r
    ELSE IF lo = hi
       THEN Crc32Shifts(<<BitXor(r[1], bytes[lo]), r[2], r[3], r[4]>>, 8)
    ELSE LET s == Crc32Range(bytes, lo, (lo + hi) \div 2, r)
         IN  IF Len(s) = 4 THEN Crc32Range(bytes, (lo + hi) \div 2 + 1, hi, s)
             ELSE s

Crc32(bytes, r) == Crc32Range(bytes, 1, Len(bytes), r)

Reverse(s) == [j \in 1..Len(s) |-> s[Len(s) + 1 - j]]

RangeError == [raised |-> TRUE, covered |-> 0, value |-> << >>]

\* CorePatcher._compute_checksum(data, offset, size)
CoreComputeChecksum(buf, offset, size) ==
    IF size > Len(buf) THEN RangeError
    ELSE LET d == PySlice(buf, offset, offset + size)
         IN  [raised |-> FALSE, covered |-> Len(d),
              value |-> ToBytesBig(Crc16Ccitt(d, 0), 2)]

\* data + b'\xFF' * ((-len(data)) % 4)
RECURSIVE PadFF(_)
PadFF(d) == IF Len(d) % 4 = 0 THEN d ELSE PadFF(d \o <<255>>)

\* LKS32Patcher._compute_checksum(data, offset, size); to_bytes(4, 'little')
\* is the register with its bytes reversed.
LKS32ComputeChecksum(buf, offset, size) ==
    IF size > Len(buf) THEN RangeError
    ELSE LET d == PySlice(buf, offset, offset + size)
         IN  [raised |-> FALSE, covered |-> Len(d),
              value |-> Reverse(Crc32(PadFF(d), Crc32Init))]

\* Mi4pro2ndPatcher.__compute_checksum(data, offset, size)
Mi4pro2ndComputeChecksum(buf, offset, size) ==
    LET d == PySlice(buf, offset, Len(buf))
    IN  IF size > Len(d) THEN RangeError
        ELSE [raised |-> FALSE, covered |-> size,
              value |-> ToBytesBig(Crc16Ccitt(SubSeq(d, 1, size), 0), 2)]

-----------------------------------------------------------------------------
(* fix_checksum of CorePatcher, LKS32Patcher and ES32Patcher, and          *)
(* LKS32Patcher.region_free.  Each yields self.data after the call and the *)
(* exception that left it ("" when it returned).                           *)

\* A walk over the header in steps of 8 instead of 0x10.
RECURSIVE HeaderSlotStep8(_, _)
HeaderSlotStep8(buf, chk_ofs) ==
    IF PySlice(buf, chk_ofs, chk_ofs + 2) = <<0, 0>> /\ chk_ofs < 46
       THEN HeaderSlotStep8(buf, chk_ofs + 8)
    ELSE chk_ofs

\* The while loop of CorePatcher.fix_checksum: the header slot written.
RECURSIVE HeaderSlot(_, _)
HeaderSlot(buf, chk_ofs) ==
    IF PySlice(buf, chk_ofs, chk_ofs + 2) = <<0, 0>> /\ chk_ofs < 46
       THEN HeaderSlot(buf, chk_ofs + 16)
    ELSE chk_ofs

\* CorePatcher.fix_checksum(start_ofs); 84 is ord('T').
CoreFixChecksum(buf, start_ofs) ==
    IF PySlice(buf, start_ofs - 2, start_ofs) # <<255, 255>>
       THEN [raised |-> "", data |-> buf]
    ELSE LET t == At(buf, 0) = 84
             size == IF t THEN Len(buf) - start_ofs
                     ELSE FromBytesBig(PySlice(buf, 0, 4))
             chk_ofs == HeaderSlot(buf, IF t THEN 19 ELSE 10)
             post == CoreComputeChecksum(buf, start_ofs, size)
         IN  IF post.raised THEN [raised |-> "Exception", data |-> buf]
             ELSE [raised |-> "",
                   data |-> PyAssign(buf, chk_ofs, chk_ofs + 2, post.value)]

\* 'LKS32MC0'.encode() and 'SZMC-ES-ZM-'.encode()
LKS32Marker == <<76, 75, 83, 51, 50, 77, 67, 48>>
ES32Marker == <<83, 90, 77, 67, 45, 69, 83, 45, 90, 77, 45>>

\* A variant of the LKS32 routine that fixes the header checksum first and
\* stores the body CRC-32 afterwards.
LKS32FixChecksumHeaderFirst(buf) ==
    LET f == Find(buf, LKS32Marker)
        ofs == f.index - 8
        size == FromBytesLittle(PySlice(buf, ofs, ofs + 4))
        post == LKS32ComputeChecksum(buf, ofs + 24, size)
        hdr == CoreFixChecksum(buf, ofs)
    IN  IF f.status # "ok" THEN [raised |-> f.status, data |-> buf]
        ELSE IF PySlice(buf, ofs - 2, ofs) # <<255, 255>>
             THEN [raised |-> "", data |-> buf]
        ELSE IF post.raised \/ hdr.raised # ""
             THEN [raised |-> "Exception", data |-> buf]
        ELSE [raised |-> "",
              data |-> PyAssign(hdr.data, ofs + 4, ofs + 8, post.value)]

\* LKS32Patcher.fix_checksum()
LKS32FixChecksum(buf) ==
    LET f == Find(buf, LKS32Marker)
        ofs == f.index - 8
        size == FromBytesLittle(PySlice(buf, ofs, ofs + 4))
        post == LKS32ComputeChecksum(buf, ofs + 24, size)
    IN  IF f.status # "ok" THEN [raised |-> f.status, data |-> buf]
        ELSE IF PySlice(buf, ofs - 2, ofs) # <<255, 255>>
           THEN [raised |-> "", data |-> buf]
        ELSE IF post.raised THEN [raised |-> "Exception", data |-> buf]
        ELSE CoreFixChecksum(PyAssign(buf, ofs + 4, ofs + 8, post.value), ofs)

\* ES32Patcher.fix_checksum()
ES32FixChecksum(buf) ==
    LET f == Find(buf, ES32Marker)
        ofs == f.index + 32
        size == FromBytesBig(PySlice(buf, ofs - 42, ofs - 40))
        post == CoreComputeChecksum(buf, ofs + 80, size)
    IN  IF f.status # "ok" THEN [raised |-> f.status, data |-> buf]
        ELSE IF post.raised THEN [raised |-> "Exception", data |-> buf]
        ELSE CoreFixChecksum(PyAssign(buf, ofs, ofs + 2, post.value),
                             f.index - 16)

\* Mi5Patcher.SNS
SNS == <<(<<132, 236, 0, 0>>), (<<205, 238, 0, 0>>)>>

\* The "while True" loop of region_free for one tag, from ofs on.
RECURSIVE RegionFreeTag(_, _, _)
RegionFreeTag(buf, sn, ofs) ==
    LET f == FindAt(buf, sn, ofs + 1)
    IN  IF f.status # "ok" THEN buf
        ELSE RegionFreeTag(PyAssign(buf, f.index, f.index + 4, <<0, 0, 0, 0>>),
                           sn, f.index)

\* LKS32Patcher.region_free(): the loop over the tags sns[k..]; << >> is a
\* class without the SNS attribute.
RECURSIVE LKS32RegionFree(_, _, _)
LKS32RegionFree(buf, sns, k) ==
    IF k > Len(sns) THEN [raised |-> "", data |-> buf]
    ELSE LKS32RegionFree(RegionFreeTag(buf, sns[k], 0), sns, k + 1)

-----------------------------------------------------------------------------
(* CoreN32Patcher: XOR encryption, embedded CRC-16, image envelope.        *)
(*                                                                         *)
(* The layout constants are scaled down so that whole images can be        *)
(* enumerated; they keep the relations of the source values (0x80, 0x9880,  *)
(* 0x40, 0x42, 500, 128): FIRMWARE_SIZE is a multiple of                    *)
(* ALIGNMENT_BOUNDARY, MIN_FIRMWARE_SIZE = CRC_START_OFFSET + 2,            *)
(* CRC_START_OFFSET < ALIGNMENT_BOUNDARY < MIN_PADDING_LENGTH, and the      *)
(* two CRC bytes are shorter than an alignment block.                      *)

ENCRYPTION_KEY == 170          \* 0xAA
CRC16_POLY == 32773            \* 0x8005
FIRMWARE_OFFSET == 4           \* scaled from 0x80
FIRMWARE_SIZE == 64            \* scaled from 0x9880
CRC_START_OFFSET == 1          \* scaled from 0x40
MIN_FIRMWARE_SIZE == 3         \* scaled from 0x42
MIN_PADDING_LENGTH == 5        \* scaled from 500
ALIGNMENT_BOUNDARY == 4        \* scaled from 128

\* The lowest n bits of value in reverse order.
RECURSIVE BitReverse(_, _)
BitReverse(value, n) ==
    IF n = 0 THEN 0
    ELSE (value % 2) * 2^(n - 1) + BitReverse(value \div 2, n - 1)

bit_reverse_8(value) == BitReverse(value, 8)
bit_reverse_16(value) == BitReverse(value, 16)

\* The loop of crc16_with_bit_reversal over the bytes, from register crc.
RECURSIVE Crc16Reversed(_, _, _, _)
Crc16Reversed(bytes, lo, hi, crc) ==
    IF lo > hi THEN crc
    ELSE IF lo = hi
       THEN Crc16Shifts(BitXor(crc, bit_reverse_8(bytes[lo]) * 256),
                        CRC16_POLY, 8)
    ELSE LET c == Crc16Reversed(bytes, lo, (lo + hi) \div 2, crc)
         IN  IF c >= 0 THEN Crc16Reversed(bytes, (lo + hi) \div 2 + 1, hi, c)
             ELSE c

crc16_with_bit_reversal(bytes) ==
    bit_reverse_16(Crc16Reversed(bytes, 1, Len(bytes), 65535))

encrypt_data(bytes) == [j \in 1..Len(bytes) |-> BitXor(bytes[j], ENCRYPTION_KEY)]
decrypt_data(bytes) == encrypt_data(bytes)

\* The inner while loop of calculate_firmware_size: the end of the run of
\* padding_byte that starts at i.
RECURSIVE PaddingRunEnd(_, _, _)
PaddingRunEnd(bytes, i, padding_byte) ==
    IF i < Len(bytes) /\ At(bytes, i) = padding_byte
       THEN PaddingRunEnd(bytes, i + 1, padding_byte)
    ELSE i

\* The outer while loop from index i on; the result is max_padding_end.
RECURSIVE PaddingScan(_, _, _, _)
PaddingScan(bytes, i, max_padding_length, max_padding_end) ==
    IF i >= Len(bytes) THEN max_padding_end
    ELSE IF At(bytes, i) \in {170, 0}
       THEN LET e == PaddingRunEnd(bytes, i, At(bytes, i))
                length == e - i
            IN  IF length > max_padding_length /\ length > MIN_PADDING_LENGTH
                   THEN PaddingScan(bytes, e, length, e)
                ELSE PaddingScan(bytes, e, max_padding_length, max_padding_end)
    ELSE PaddingScan(bytes, i + 1, max_padding_length, max_padding_end)

calculate_firmware_size(firmware_data) ==
    LET max_padding_end == PaddingScan(firmware_data, 0, 0, 0)
    IN  IF max_padding_end > 0
           THEN ((max_padding_end + ALIGNMENT_BOUNDARY - 1)
                    \div ALIGNMENT_BOUNDARY) * ALIGNMENT_BOUNDARY
        ELSE Len(firmware_data)

\* verify_firmware_crc(firmware): raised is "" on return, else the exception
\* (struct.unpack of a slice that is not two bytes long is a struct.error).
verify_firmware_crc(firmware) ==
    LET fw_size == calculate_firmware_size(firmware)
        crc_end == fw_size - 2
        embedded == PySlice(firmware, crc_end, crc_end + 2)
        crc_data == PySlice(firmware, CRC_START_OFFSET, crc_end)
    IN  IF fw_size < MIN_FIRMWARE_SIZE
           THEN [raised |-> "ValueError", is_valid |-> FALSE]
        ELSE IF Len(embedded) # 2
           THEN [raised |-> "struct.error", is_valid |-> FALSE]
        ELSE [raised |-> "",
              is_valid |-> FromBytesBig(embedded)
                              = crc16_with_bit_reversal(crc_data)]

is_encrypted(firmware_data) ==
    LET v == verify_firmware_crc(firmware_data)
    IN  IF v.raised # "" THEN FALSE ELSE v.is_valid

\* patch_firmware_crc(): the slice assignment firmware[crc_end:fw_size]
\* lengthens the buffer when fw_size is past its end.
patch_firmware_crc(firmware) ==
    LET fw_size == calculate_firmware_size(firmware)
        crc_end == fw_size - 2
        crc_data == PySlice(firmware, CRC_START_OFFSET, crc_end)
        correct_crc == crc16_with_bit_reversal(crc_data)
    IN  IF fw_size < MIN_FIRMWARE_SIZE
           THEN [raised |-> "ValueError", data |-> firmware]
        ELSE [raised |-> "",
              data |-> PyAssign(firmware, crc_end, fw_size,
                                ToBytesBig(correct_crc, 2))]

\* CoreN32Patcher.fix_checksum(): self.data afterwards, and the exception.
N32FixChecksum(buf, wasEncrypted) ==
    LET d == IF wasEncrypted /\ ~is_encrypted(buf) THEN encrypt_data(buf)
             ELSE buf
        p == patch_firmware_crc(d)
    IN  [raised |-> p.raised, data |-> p.data]

\* extract_firmware_from_image(full_image_data)
extract_firmware_from_image(full) ==
    IF Len(full) = FIRMWARE_SIZE
       THEN [raised |-> "", firmware_data |-> full,
             image_header |-> << >>, image_footer |-> << >>]
    ELSE IF Len(full) < FIRMWARE_OFFSET + FIRMWARE_SIZE
       THEN [raised |-> "ValueError", firmware_data |-> << >>,
             image_header |-> << >>, image_footer |-> << >>]
    ELSE [raised |-> "",
          firmware_data |-> PySlice(full, FIRMWARE_OFFSET,
                                    FIRMWARE_OFFSET + FIRMWARE_SIZE),
          image_header |-> PySlice(full, 0, FIRMWARE_OFFSET),
          image_footer |-> PySlice(full, FIRMWARE_OFFSET + FIRMWARE_SIZE,
                                   Len(full))]

\* CoreN32Patcher.__init__(data): the fields after construction.  An absent
\* header or footer (None) is << >>, a present one is <<bytes>>.
N32Init(bytes) ==
    LET full == Len(bytes) >= FIRMWARE_OFFSET + FIRMWARE_SIZE
        x == extract_firmware_from_image(bytes)
        firmware_data == IF full THEN x.firmware_data ELSE bytes
        enc == is_encrypted(firmware_data)
    IN  [image_header |-> IF full THEN <<x.image_header>> ELSE << >>,
         image_footer |-> IF full THEN <<x.image_footer>> ELSE << >>,
         was_encrypted |-> enc,
         data |-> IF enc THEN decrypt_data(firmware_data) ELSE firmware_data]

-----------------------------------------------------------------------------
(* The speed patches of Mi5elitePatcher and Mi4pro2ndPatcher.  A speed is   *)
(* a number of tenths of km/h (255 is 25.5 km/h).                          *)

\* Mi5elitePatcher's signatures, and the address pattern of the mode data.
SIG_SPEED_LIMIT_RETURN ==
    <<8, 128, 82, 72, 82, 73, 0, 136, 9, 136, 0, 241, 10, 2, 138, 66, 1, 217>>
SIG_SPEED_LIMIT_DST == <<223, 248, 240, 129, 168, 248, 0, 16, 123, 73, 103, 69>>
mode_data_pattern == <<138, 1, 0, 32>>

\* Mi5elitePatcher._speed_limit_fix(): the two bytes after the destination
\* signature become 3F E0, unless the signature is absent or they are 3F E0
\* already.
_speed_limit_fix(buf) ==
    LET r == Find(buf, SIG_SPEED_LIMIT_DST)
        ofs == r.index + Len(SIG_SPEED_LIMIT_DST)
        pre == PySlice(buf, ofs, ofs + 2)
    IN  IF r.status = "SignatureException" THEN [raised |-> "", data |-> buf]
        ELSE IF r.status # "ok" THEN [raised |-> r.status, data |-> buf]
        ELSE IF pre = <<63, 224>> THEN [raised |-> "", data |-> buf]
        ELSE IF Len(pre) # 2 THEN [raised |-> "AssertionError", data |-> buf]
        ELSE [raised |-> "", data |-> PyAssign(buf, ofs, ofs + 2, <<63, 224>>)]

\* The exception of a find_pattern call made inside
\* "try: ... except SignatureException: raise Exception(...)".
Reraised(r) == IF r.status = "SignatureException" THEN "Exception" ELSE r.status

\* Mi5elitePatcher._patch_speed_block(), which speed_limit_ped, _drive and
\* _sport call with their speed: the speed-limit fix, the three searches,
\* and then self.assembly(branch_asm, self._ldr_patch_offset), a call with
\* two arguments of CorePatcher.assembly(self, code): a TypeError.  The
\* statements after that call are never reached.
_patch_speed_block(buf, kmh) ==
    LET fix == _speed_limit_fix(buf)
        ret_sig == Find(fix.data, SIG_SPEED_LIMIT_RETURN)
        dst_sig == Find(fix.data, SIG_SPEED_LIMIT_DST)
        mode == Find(fix.data, mode_data_pattern)
    IN  IF fix.raised # "" THEN fix
        ELSE IF ret_sig.status # "ok"
           THEN [raised |-> Reraised(ret_sig), data |-> fix.data]
        ELSE IF dst_sig.status # "ok"
           THEN [raised |-> Reraised(dst_sig), data |-> fix.data]
        ELSE IF mode.status # "ok"
           THEN [raised |-> Reraised(mode), data |-> fix.data]
        ELSE [raised |-> "TypeError", data |-> fix.data]

\* Mi4pro2ndPatcher.__calc_speed(speed): int(20.9 * speed) in two
\* little-endian bytes (the integer quotient equals the float product
\* truncated for every speed below 90.0 km/h).
Mi4pro2ndCalcSpeed(speed) ==
    LET v == (209 * speed) \div 100
    IN  IF speed < 0 \/ v > 65535 THEN [raised |-> "OverflowError", post |-> << >>]
        ELSE [raised |-> "", post |-> ToBytesLittle(v, 2)]

\* "for i in range(n): ofs += 2; self.data[ofs:ofs+2] = post"
RECURSIVE TableWrites(_, _, _, _)
TableWrites(buf, ofs, post, n) ==
    IF n = 0 THEN buf
    ELSE TableWrites(PyAssign(buf, ofs + 2, ofs + 4, post), ofs + 2, post, n - 1)

\* The body that Mi4pro2ndPatcher.speed_limit_sport and speed_limit_drive
\* share: the signature is the head of the speed table, whose 11 entries
\* after the first are overwritten.
Mi4pro2ndSpeedTable(buf, sig, speed) ==
    LET r == Find(buf, sig)
        c == Mi4pro2ndCalcSpeed(speed)
    IN  IF r.status # "ok" THEN [raised |-> r.status, data |-> buf]
        ELSE IF c.raised # "" THEN [raised |-> c.raised, data |-> buf]
        ELSE [raised |-> "", data |-> TableWrites(buf, r.index, c.post, 11)]

SigSportTable == <<0, 0, 161, 1, 10, 2, 161, 1>>
SigDriveTable == <<56, 0, 57, 1, 161, 1, 57, 1, 57>>

Mi4pro2ndSpeedLimitSport(buf, speed) ==
    Mi4pro2ndSpeedTable(buf, SigSportTable, speed)
Mi4pro2ndSpeedLimitDrive(buf, speed) ==
    Mi4pro2ndSpeedTable(buf, SigDriveTable, speed)

-----------------------------------------------------------------------------
(* Calls of the pure functions: the arguments are drawn in Init, the call  *)
(* is one action.                                                          *)

NoSession ==
    /\ model = "" /\ patches = << >> /\ web = FALSE /\ input = << >>
    /\ data = << >> /\ was_encrypted = FALSE
    /\ image_header = << >> /\ image_footer = << >>
    /\ idx = 0 /\ errors = << >> /\ calls = << >> /\ last = << >>
    /\ output = << >>

FindBytes == {1, 2}

\* The mask of a masked call: every element keeps the lowest bit only.
LowBitMask(signature) == [j \in 1..Len(signature) |-> 1]

FindArgs ==
    [buf : SeqsUpTo(FindBytes, MaxData),
     signature : SeqsUpTo(FindBytes \cup {None}, MaxSig) \ {<< >>},
     masked : BOOLEAN,
     start : 0..MaxData,
     maxit : {None} \cup 1..MaxIt]

FindMask(a) == IF a.masked THEN LowBitMask(a.signature) ELSE << >>

InitFind ==
    /\ pc = "call_find_pattern"
    /\ args \in FindArgs
    /\ ret = [status |-> "", index |-> None]
    /\ NoSession

CallFindPattern ==
    /\ pc = "call_find_pattern"
    /\ ret' = find_pattern(args.buf, args.signature, FindMask(args),
                           args.start, args.maxit)
    /\ pc' = "returned_find_pattern"
    /\ UNCHANGED <<args, sessionVars>>

NextFind == CallFindPattern

SpecFind == InitFind /\ [][NextFind]_vars

LdrArgs == [ldr_offset : 0..MaxLdrOffset, dst_ofs : 0..MaxDst]

InitLdr ==
    /\ pc = "call_safe_ldr"
    /\ args \in LdrArgs
    /\ ret = [raised |-> FALSE, lit |-> None, imm |-> None]
    /\ NoSession

CallSafeLdr ==
    /\ pc = "call_safe_ldr"
    /\ ret' = _safe_ldr(args.ldr_offset, args.dst_ofs)
    /\ pc' = "returned_safe_ldr"
    /\ UNCHANGED <<args, sessionVars>>

NextLdr == CallSafeLdr

SpecLdr == InitLdr /\ [][NextLdr]_vars

ChkBytes == {0, 255}

\* The offset lies within the buffer; the size is any, also past the end.
ChkArgs ==
    {a \in [kernel : {"CorePatcher", "LKS32Patcher", "Mi4pro2ndPatcher"},
            buf : SeqsUpTo(ChkBytes, MaxBuf),
            offset : 0..MaxBuf,
            size : 0..(MaxBuf + 1)] : a.offset <= Len(a.buf)}

InitChk ==
    /\ pc = "call_compute_checksum"
    /\ args \in ChkArgs
    /\ ret = [raised |-> FALSE, covered |-> 0, value |-> << >>]
    /\ NoSession

CallCoreComputeChecksum ==
    /\ pc = "call_compute_checksum"
    /\ args.kernel = "CorePatcher"
    /\ ret' = CoreComputeChecksum(args.buf, args.offset, args.size)
    /\ pc' = "returned_compute_checksum"
    /\ UNCHANGED <<args, sessionVars>>

CallLKS32ComputeChecksum ==
    /\ pc = "call_compute_checksum"
    /\ args.kernel = "LKS32Patcher"
    /\ ret' = LKS32ComputeChecksum(args.buf, args.offset, args.size)
    /\ pc' = "returned_compute_checksum"
    /\ UNCHANGED <<args, sessionVars>>

CallMi4pro2ndComputeChecksum ==
    /\ pc = "call_compute_checksum"
    /\ args.kernel = "Mi4pro2ndPatcher"
    /\ ret' = Mi4pro2ndComputeChecksum(args.buf, args.offset, args.size)
    /\ pc' = "returned_compute_checksum"
    /\ UNCHANGED <<args, sessionVars>>

NextChk ==
    \/ CallCoreComputeChecksum
    \/ CallLKS32ComputeChecksum
    \/ CallMi4pro2ndComputeChecksum

SpecChk == InitChk /\ [][NextChk]_vars

-----------------------------------------------------------------------------
(* Input images of a patch_firmware session.                               *)

Fill(n, b) == [j \in 1..n |-> b]

\* The first four bytes of an update file: 'T'..., or the big-endian size of
\* the range the header CRC covers (0, 8, or 256: longer than the images
\* below).
Heads == {<<84, 17, 17, 17>>, <<0, 0, 0, 0>>, <<0, 0, 0, 8>>, <<0, 0, 1, 0>>}

\* The header CRC slots CorePatcher.fix_checksum walks over.
SlotOffsets(head) ==
    IF head[1] = 84 THEN <<19, 35, 51>> ELSE <<10, 26, 42, 58>>

RECURSIVE ZeroSlots(_, _, _)
ZeroSlots(buf, offsets, zeros) ==
    IF zeros = 0 \/ Len(offsets) = 0 THEN buf
    ELSE ZeroSlots(PyAssign(buf, Head(offsets), Head(offsets) + 2, <<0, 0>>),
                   Tail(offsets), zeros - 1)

\* The 62 bytes in front of the range the header CRC covers: the head, the
\* CRC slots (the first `zeros` of them empty), and at the end the two
\* bytes fix_checksum requires to be FF FF.  zeros = 4 empties every slot.
UpdateHeader(p) ==
    ZeroSlots(p.head \o Fill(56, 17), SlotOffsets(p.head), p.zeros)
        \o (IF p.guard THEN <<255, 255>> ELSE <<17, 17>>)

HeaderParams ==
    [head : Heads, zeros : {0, 1, 4}, guard : BOOLEAN, big : BOOLEAN,
     body : {<<1, 2, 3, 4>>, <<132, 236, 0, 0, 5>>}]

\* An LKS32 update file: header, body size (little-endian; 4, or longer than
\* the file), body CRC-32, the marker, 8 more bytes, the body.
LKS32Image(p) ==
    UpdateHeader(p)
        \o (IF p.big THEN <<0, 1, 0, 0>> ELSE <<4, 0, 0, 0>>)
        \o Fill(4, 17) \o LKS32Marker \o Fill(8, 17) \o p.body

\* An ES32 update file: header, 16 bytes holding the body size (big-endian,
\* at marker - 10), the marker, the body CRC-16 at marker + 0x20, the body
\* at marker + 0x70.
ES32Image(p) ==
    UpdateHeader(p)
        \o Fill(6, 17) \o (IF p.big THEN <<1, 0>> ELSE <<0, 4>>) \o Fill(8, 17)
        \o ES32Marker \o Fill(21, 17) \o Fill(2, 17) \o Fill(78, 17) \o p.body

\* The first bytes of an N32 firmware: code that holds the speed-limit
\* signatures of the mi5elite (the return signature 12 bytes in, then the
\* destination signature and the two bytes the speed-limit fix rewrites,
\* then the mode data address), or code that holds none of them.
N32Code(sigs) ==
    IF sigs
       THEN Fill(12, 17) \o SIG_SPEED_LIMIT_RETURN \o SIG_SPEED_LIMIT_DST
                \o <<17, 17>> \o mode_data_pattern \o Fill(4, 17)
    ELSE Fill(52, 17)

\* The bytes of the firmware after that code.
N32TailSize == FIRMWARE_SIZE - Len(N32Code(TRUE))

\* An N32 firmware in plaintext: the code, `code` more bytes of it, a run of
\* `run` padding bytes, data.
N32Params ==
    {p \in [sigs : {FALSE}, code : 1..2, run : {0} \cup 6..N32TailSize,
            form : {"plain", "plain_crc", "encrypted"},
            envelope : BOOLEAN, footer : 0..MaxFooter] :
        /\ p.code + p.run <= N32TailSize
        /\ ~p.envelope => p.footer = 0}

N32Plain(p) ==
    N32Code(p.sigs) \o Fill(p.code, 17) \o Fill(p.run, 0)
        \o Fill(N32TailSize - p.code - p.run, 17)

\* The firmware as shipped (XOR-encrypted, CRC patched), as plaintext, or as
\* plaintext with its CRC patched.
N32Firmware(p) ==
    IF p.form = "encrypted"
       THEN patch_firmware_crc(encrypt_data(N32Plain(p))).data
    ELSE IF p.form = "plain_crc" THEN patch_firmware_crc(N32Plain(p)).data
    ELSE N32Plain(p)

\* The firmware alone, or inside the full image: header, firmware, footer.
N32Image(p) ==
    IF p.envelope
       THEN Fill(FIRMWARE_OFFSET, 1) \o N32Firmware(p) \o Fill(p.footer, 2)
    ELSE N32Firmware(p)

-----------------------------------------------------------------------------
(* utils.patch_firmware                                                    *)

patch_map ==
    [rsls |-> "remove_speed_limit_sport", dms |-> "dashboard_max_speed",
     sld |-> "speed_limit_drive", sls |-> "speed_limit_sport",
     rfm |-> "region_free", fdv |-> "fake_drv_version",
     chk |-> "fix_checksum", mss |-> "motor_start_speed",
     cce |-> "cruise_control_enable"]

\* The chip family of the patcher class of a model.
Family(m) ==
    CASE m = "mi5" -> "LKS32"
      [] m = "s60" -> "ES32"
      [] m = "mi5elite" -> "N32"
      [] m = "mi4pro2nd" -> "Core"
      [] m = "mi4" -> "LKS32"

\* import_module(f"bwpatcher.modules.{model}") fails for mi4, whose module
\* imports get_reg from bwpatcher.utils, a name utils.py does not define.
ImportFails(m) == m = "mi4"

Models == {"mi5", "s60", "mi5elite"}

\* The tokens of a session: chk, rfm and slp=6.0.
Tokens == {[name |-> "chk", value |-> None], [name |-> "rfm", value |-> None],
           [name |-> "slp", value |-> 6]}

Sessions ==
    {[model |-> "mi5", image |-> LKS32Image(p)] : p \in HeaderParams}
    \cup {[model |-> "s60", image |-> ES32Image(p)] :
              p \in {q \in HeaderParams : q.body = <<1, 2, 3, 4>>}}
    \cup {[model |-> "mi5elite", image |-> N32Image(p)] : p \in N32Params}

\* The commented-out "if patches[-1] != 'chk': patches.append('chk')".
ForcedChk(p) ==
    IF p = << >> \/ p[Len(p)].name # "chk"
       THEN Append(p, [name |-> "chk", value |-> None])
    ELSE p

\* The list the for loop runs over: the list as given.
PatchList(p) == p

Init ==
    /\ pc = "construct"
    /\ args = << >>
    /\ ret = ""
    /\ \E s \in Sessions : model = s.model /\ input = s.image
    /\ patches \in SeqsUpTo(Tokens, MaxPatches)
    /\ web \in BOOLEAN
    /\ data = << >> /\ was_encrypted = FALSE
    /\ image_header = << >> /\ image_footer = << >>
    /\ idx = 0 /\ errors = << >> /\ calls = << >> /\ last = << >>
    /\ output = << >>

\* patcher_class(data) for the classes that keep CorePatcher.__init__
ConstructCore ==
    /\ pc = "construct"
    /\ ~ImportFails(model)
    /\ Family(model) \in {"LKS32", "ES32", "Core"}
    /\ data' = input
    /\ pc' = "loop"
    /\ UNCHANGED <<args, ret, model, patches, web, input, was_encrypted,
                   image_header, image_footer, idx, errors, calls, last,
                   output>>

\* patcher_class(data) for CoreN32Patcher.__init__
ConstructN32 ==
    /\ pc = "construct"
    /\ Family(model) = "N32"
    /\ \E p \in {N32Init(input)} :
           /\ data' = p.data
           /\ was_encrypted' = p.was_encrypted
           /\ image_header' = p.image_header
           /\ image_footer' = p.image_footer
    /\ pc' = "loop"
    /\ UNCHANGED <<args, ret, model, patches, web, input, idx, errors, calls,
                   last, output>>

\* The token of the current iteration of "for patch in patches".
InLoop == pc = "loop" /\ idx < Len(PatchList(patches))
Patch == PatchList(patches)[idx + 1]

\* An iteration that does "errors.append((patch, e))" in web mode too.
DispatchedLogging(r) ==
    /\ last' = data
    /\ data' = r.data
    /\ calls' = Append(calls, [name |-> patch_map[Patch.name],
                               raised |-> r.raised])
    /\ errors' = IF r.raised = "" THEN errors
                 ELSE Append(errors, [patch |-> Patch.name,
                                      error |-> r.raised,
                                      exception |-> TRUE])
    /\ idx' = idx + 1
    /\ UNCHANGED <<pc, ret, args, model, patches, web, input, was_encrypted,
                   image_header, image_footer, output>>

\* One iteration whose capability call left self.data = r.data and raised
\* r.raised ("" when it returned): "raise e" in web mode, errors.append
\* otherwise.
Dispatched(r) ==
    /\ last' = data
    /\ data' = r.data
    /\ calls' = Append(calls, [name |-> patch_map[Patch.name],
                               raised |-> r.raised])
    /\ IF r.raised = ""
          THEN /\ idx' = idx + 1
               /\ UNCHANGED <<pc, ret, errors>>
       ELSE IF web
          THEN /\ pc' = "raised"
               /\ ret' = r.raised
               /\ UNCHANGED <<idx, errors>>
       ELSE /\ errors' = Append(errors, [patch |-> Patch.name,
                                         error |-> r.raised,
                                         exception |-> TRUE])
            /\ idx' = idx + 1
            /\ UNCHANGED <<pc, ret>>
    /\ UNCHANGED <<args, model, patches, web, input, was_encrypted,
                   image_header, image_footer, output>>

\* (In the actions below "\E r \in {call} : Dispatched(r)" names the outcome
\* of the one call the iteration makes.)
FixChecksumLKS32 ==
    /\ InLoop /\ Patch.name = "chk" /\ Family(model) = "LKS32"
    /\ \E r \in {LKS32FixChecksum(data)} : Dispatched(r)

FixChecksumES32 ==
    /\ InLoop /\ Patch.name = "chk" /\ Family(model) = "ES32"
    /\ \E r \in {ES32FixChecksum(data)} : Dispatched(r)

FixChecksumN32 ==
    /\ InLoop /\ Patch.name = "chk" /\ Family(model) = "N32"
    /\ \E r \in {N32FixChecksum(data, was_encrypted)} : Dispatched(r)

RegionFreeLKS32 ==
    /\ InLoop /\ Patch.name = "rfm" /\ Family(model) = "LKS32"
    /\ \E r \in {LKS32RegionFree(data, SNS, 1)} : Dispatched(r)

\* CorePatcher.region_free, which S60Patcher and Mi5elitePatcher inherit.
RegionFreeCore ==
    /\ InLoop /\ Patch.name = "rfm" /\ Family(model) \in {"ES32", "N32"}
    /\ \E r \in {[raised |-> "NotImplementedError", data |-> data]} :
           Dispatched(r)

\* A token whose name is no key of patch_map: the error is a string.
UnknownPatch ==
    /\ InLoop /\ Patch.name \notin DOMAIN patch_map
    /\ errors' = Append(errors, [patch |-> Patch.name,
                                 error |-> "The specified patch doesn't exist.",
                                 exception |-> FALSE])
    /\ idx' = idx + 1
    /\ UNCHANGED <<pc, args, ret, model, patches, web, input, data,
                   was_encrypted, image_header, image_footer, calls, last,
                   output>>

\* After the loop: the errors are printed with traceback.print_exception,
\* which reads error.__traceback__ (an AttributeError on a string), and
\* patcher.data is returned.
Return ==
    /\ pc = "loop" /\ idx = Len(PatchList(patches))
    /\ IF \E k \in 1..Len(errors) : ~errors[k].exception
          THEN pc' = "raised" /\ ret' = "AttributeError" /\ output' = output
       ELSE pc' = "done" /\ ret' = ret /\ output' = data
    /\ UNCHANGED <<args, model, patches, web, input, data, was_encrypted,
                   image_header, image_footer, idx, errors, calls, last>>

Next ==
    \/ ConstructCore
    \/ ConstructN32
    \/ FixChecksumLKS32
    \/ FixChecksumES32
    \/ FixChecksumN32
    \/ RegionFreeLKS32
    \/ RegionFreeCore
    \/ UnknownPatch
    \/ Return

Spec == Init /\ [][Next]_vars

-----------------------------------------------------------------------------
(* LKS32Patcher.fake_drv_version.  A version string is the sequence of the  *)
(* code points of its characters.                                          *)

SigDrvVersion ==
    <<111, 107, 13, None, None, None, None, 13, 101, 114, 114, 111, 114>>

\* Characters str.isdigit() takes for digits: the ASCII digits, and among
\* the others SUPERSCRIPT TWO and ARABIC-INDIC DIGIT ONE.
UnicodeDigits == (48..57) \cup {178, 1633}

\* str.isdigit(): every character is a digit and there is at least one.
isdigit(v) == Len(v) > 0 /\ \A i \in 1..Len(v) : v[i] \in UnicodeDigits

\* str.encode("ascii") raises UnicodeEncodeError on a character above 127.
EncodesAscii(v) == \A i \in 1..Len(v) : v[i] <= 127

LKS32FakeDrvVersion(buf, firmware_version) ==
    LET r == Find(buf, SigDrvVersion)
        ofs == r.index + 3
    IN  IF ~isdigit(firmware_version)
           THEN [raised |-> "ValueError", data |-> buf]
        ELSE IF Len(firmware_version) # 4
           THEN [raised |-> "ValueError", data |-> buf]
        ELSE IF r.status # "ok" THEN [raised |-> r.status, data |-> buf]
        ELSE IF ~EncodesAscii(firmware_version)
           THEN [raised |-> "UnicodeEncodeError", data |-> buf]
        ELSE [raised |-> "", data |-> PyAssign(buf, ofs, ofs + 4,
                                               firmware_version)]

\* The characters 0, 9, a and ARABIC-INDIC DIGIT ONE.
FdvChars == {48, 57, 97, 1633}

\* A buffer with the text "ok\r1234\rerror" in it, and one without.
FdvBufs ==
    {Fill(2, 17) \o <<111, 107, 13, 49, 50, 51, 52, 13, 101, 114, 114, 111, 114>>
         \o Fill(2, 17),
     Fill(17, 17)}

FdvArgs == [buf : FdvBufs, v : SeqsUpTo(FdvChars, MaxVersionLen)]

InitFdv ==
    /\ pc = "call_fake_drv_version"
    /\ args \in FdvArgs
    /\ ret = [raised |-> "", data |-> << >>]
    /\ NoSession

CallFakeDrvVersion ==
    /\ pc = "call_fake_drv_version"
    /\ ret' = LKS32FakeDrvVersion(args.buf, args.v)
    /\ pc' = "returned_fake_drv_version"
    /\ UNCHANGED <<args, sessionVars>>

NextFdv == CallFakeDrvVersion

SpecFdv == InitFdv /\ [][NextFdv]_vars

-----------------------------------------------------------------------------
(* Sessions of speed patches: mi4pro2nd images with and without the speed  *)
(* tables, mi5elite firmwares with and without the speed-limit signatures. *)

\* A mi4pro2nd image: the sport table and the drive table (the signature
\* and the rest of the 12 entries), or neither.
Mi4pro2ndImage(tables) ==
    IF tables
       THEN Fill(2, 17) \o SigSportTable \o Fill(16, 17)
                \o SigDriveTable \o Fill(15, 17)
    ELSE Fill(8, 17)

\* sls and sld at 0.0, 0.5, 1.0, 25.5, 39.5 and 40.0 km/h.
Mi4pro2ndTokens ==
    {[name |-> "sls", value |-> v] : v \in {0, 5, 10, 255, 395, 400}}
    \cup {[name |-> "sld", value |-> v] : v \in {255, 400}}

Mi5eliteTokens ==
    {[name |-> "sls", value |-> 255], [name |-> "sld", value |-> 255],
     [name |-> "chk", value |-> None]}

Mi5eliteParams ==
    [sigs : BOOLEAN, code : {1}, run : {0, 6},
     form : {"plain", "plain_crc", "encrypted"}, envelope : BOOLEAN,
     footer : {0}]

SpeedSessions ==
    {[model |-> "mi4pro2nd", image |-> Mi4pro2ndImage(t),
      tokens |-> Mi4pro2ndTokens] : t \in BOOLEAN}
    \cup {[model |-> "mi5elite", image |-> N32Image(p),
           tokens |-> Mi5eliteTokens] : p \in Mi5eliteParams}

InitSpeed ==
    /\ pc = "construct"
    /\ args = << >>
    /\ ret = ""
    /\ \E s \in SpeedSessions :
          /\ model = s.model
          /\ input = s.image
          /\ patches \in SeqsUpTo(s.tokens, MaxSpeedPatches)
    /\ web \in BOOLEAN
    /\ data = << >> /\ was_encrypted = FALSE
    /\ image_header = << >> /\ image_footer = << >>
    /\ idx = 0 /\ errors = << >> /\ calls = << >> /\ last = << >>
    /\ output = << >>

\* "if value: res = cap(value) else: res = cap()": a capability that takes
\* the speed is called without it when the value is None or 0.0, a
\* TypeError before its first statement.
WithValue(r) ==
    IF Patch.value \in {None, 0} THEN [raised |-> "TypeError", data |-> data]
    ELSE r

SpeedLimitSportMi5elite ==
    /\ InLoop /\ Patch.name = "sls" /\ model = "mi5elite"
    /\ \E r \in {WithValue(_patch_speed_block(data, Patch.value))} :
           Dispatched(r)

SpeedLimitDriveMi5elite ==
    /\ InLoop /\ Patch.name = "sld" /\ model = "mi5elite"
    /\ \E r \in {WithValue(_patch_speed_block(data, Patch.value))} :
           Dispatched(r)

SpeedLimitSportMi4pro2nd ==
    /\ InLoop /\ Patch.name = "sls" /\ model = "mi4pro2nd"
    /\ \E r \in {WithValue(Mi4pro2ndSpeedLimitSport(data, Patch.value))} :
           Dispatched(r)

SpeedLimitDriveMi4pro2nd ==
    /\ InLoop /\ Patch.name = "sld" /\ model = "mi4pro2nd"
    /\ \E r \in {WithValue(Mi4pro2ndSpeedLimitDrive(data, Patch.value))} :
           Dispatched(r)

NextSpeed ==
    \/ ConstructCore
    \/ ConstructN32
    \/ SpeedLimitSportMi5elite
    \/ SpeedLimitDriveMi5elite
    \/ SpeedLimitSportMi4pro2nd
    \/ SpeedLimitDriveMi4pro2nd
    \/ FixChecksumN32
    \/ Return

SpecSpeed == InitSpeed /\ [][NextSpeed]_vars

-----------------------------------------------------------------------------
(* Claims about find_pattern (checked under SpecFind).                     *)

\* Index i is an occurrence of the signature in the buffer: the signature
\* fits at i and every non-wildcard element equals the buffer byte, under
\* the mask when one is given.
Occurs(buf, signature, mask, i) ==
    /\ i + Len(signature) <= Len(buf)
    /\ \A j \in 1..Len(signature) :
          \/ signature[j] = None
          \/ signature[j] = (IF mask = << >> THEN buf[i + j]
                             ELSE BitAnd(buf[i + j], mask[j]))

\* C4: find_pattern(data, sig, start) returns the smallest index i with
\* start <= i <= len(data) - |sig| that is an occurrence of sig, whenever
\* such an index exists (no max_iterations given).
C4_ReturnsSmallestOccurrence ==
    (pc = "returned_find_pattern" /\ args.maxit = None) =>
        \A i \in args.start..(Len(args.buf) - Len(args.signature)) :
            (/\ Occurs(args.buf, args.signature, FindMask(args), i)
             /\ \A k \in args.start..(i - 1) :
                   ~Occurs(args.buf, args.signature, FindMask(args), k))
            => ret = [status |-> "ok", index |-> i]

\* C5: a call without mask either finds an occurrence or fails with
\* SignatureException; it never reads the buffer at an index >= len(data)
\* (IndexError), whatever start and max_iterations are.
C5_NotFoundIsSignatureException ==
    (pc = "returned_find_pattern" /\ ~args.masked) =>
        /\ ret.status # "IndexError"
        /\ (\A i \in args.start..Len(args.buf) :
               ~Occurs(args.buf, args.signature, << >>, i))
           => ret.status = "SignatureException"

-----------------------------------------------------------------------------
(* Claim about the checksum kernels (checked under SpecChk).               *)

\* C6: a kernel called with size > len(buffer) - offset fails with a range
\* error; it never returns a checksum of a range shorter than size.
C6_KernelRejectsShortRange ==
    (pc = "returned_compute_checksum"
        /\ args.size > Len(args.buf) - args.offset)
    => ret.raised

-----------------------------------------------------------------------------
(* Claims about _safe_ldr (checked under SpecLdr).                         *)

\* C7: _safe_ldr rejects the pair when min_dst is below the PC base
\* (ldr_offset & ~3) + 4, and otherwise returns (lit, imm) with lit % 4 = 0,
\* lit >= min_dst, lit - PC base = imm and imm >= 0.
C7_SafeLdrContract ==
    pc = "returned_safe_ldr" =>
        LET base == (args.ldr_offset - (args.ldr_offset % 4)) + 4
        IN  IF args.dst_ofs < base THEN ret.raised
            ELSE /\ ~ret.raised
                 /\ ret.lit % 4 = 0
                 /\ ret.lit >= args.dst_ofs
                 /\ ret.lit - base = ret.imm
                 /\ ret.imm >= 0

\* A call answered with a literal that had to be moved up to the next word.
C7_Witness ==
    /\ pc = "returned_safe_ldr"
    /\ ~ret.raised
    /\ args.dst_ofs % 4 # 0
    /\ ret.lit > args.dst_ofs

\* C8: every immediate _safe_ldr returns is encodable in a 16-bit Thumb
\* PC-relative LDR (imm8 * 4): a multiple of 4 between 0 and 1020.
C8_ImmediateWithinLdrReach ==
    (pc = "returned_safe_ldr" /\ ~ret.raised) =>
        /\ ret.imm % 4 = 0
        /\ ret.imm >= 0
        /\ ret.imm <= 1020

-----------------------------------------------------------------------------
(* Claims about patch_firmware sessions (checked under Spec).              *)

\* C1: the buffer patch_firmware returns has exactly the length of the
\* input, for every model, image and token list.
C1_OutputLengthIsInputLength ==
    pc = "done" => Len(output) = Len(input)

\* C2: with an empty token list patch_firmware returns the input byte for
\* byte, also for N32 images that are encrypted or enveloped.
C2_EmptyListReturnsInput ==
    (pc = "done" /\ patches = << >>) => output = input

\* The capabilities the recognised tokens of a list name, in list order.
RECURSIVE Capabilities(_)
Capabilities(p) ==
    IF Len(p) = 0 THEN << >>
    ELSE IF Head(p).name \in DOMAIN patch_map
       THEN <<patch_map[Head(p).name]>> \o Capabilities(Tail(p))
    ELSE Capabilities(Tail(p))

Invoked == [k \in 1..Len(calls) |-> calls[k].name]

C9_SecondChkChangesNothing ==
    (/\ Family(model) \in {"LKS32", "ES32"}
     /\ Len(calls) >= 2
     /\ calls[Len(calls)] = [name |-> "fix_checksum", raised |-> ""]
     /\ calls[Len(calls) - 1] = [name |-> "fix_checksum", raised |-> ""])
    => data = last

\* C10: after fix_checksum has returned on an N32 firmware,
\* verify_firmware_crc on the resulting buffer returns true.
C10_CrcVerifiesAfterChk ==
    (/\ Family(model) = "N32"
     /\ calls # << >>
     /\ calls[Len(calls)] = [name |-> "fix_checksum", raised |-> ""])
    => verify_firmware_crc(data) = [raised |-> "", is_valid |-> TRUE]

-----------------------------------------------------------------------------
(* Claims about speed-patch sessions (checked under SpecSpeed).            *)

\* The firmware holds what _patch_speed_block searches for.
CarriesSpeedSignatures(buf) ==
    /\ Find(buf, SIG_SPEED_LIMIT_RETURN).status = "ok"
    /\ Find(buf, SIG_SPEED_LIMIT_DST).status = "ok"
    /\ Find(buf, mode_data_pattern).status = "ok"

\* The 1-based positions of the two CRC bytes of a firmware.
CrcSlot(firmware) ==
    LET fw_size == calculate_firmware_size(firmware)
    IN  {fw_size - 1, fw_size}

\* C11: for an encrypted N32 firmware E that carries the speed-limit
\* signatures, the session [sls=X, chk] on E ends with an output whose CRC
\* verifies and whose XOR-0xAA decryption equals, outside the two CRC bytes,
\* what sls=X and chk make of the plaintext P = E xor 0xAA.
C11_EncryptedSessionMatchesPlaintext ==
    (/\ model = "mi5elite"
     /\ pc \in {"done", "raised"}
     /\ was_encrypted
     /\ image_header = << >>
     /\ CarriesSpeedSignatures(decrypt_data(input))
     /\ patches = <<[name |-> "sls", value |-> 255],
                    [name |-> "chk", value |-> None]>>)
    => /\ pc = "done"
       /\ verify_firmware_crc(output) = [raised |-> "", is_valid |-> TRUE]
       /\ LET p == N32Init(decrypt_data(input))
              s == _patch_speed_block(p.data, 255)
              c == N32FixChecksum(s.data, p.was_encrypted)
          IN  /\ Len(c.data) = Len(output)
              /\ \A i \in 1..Len(output) :
                    i \notin CrcSlot(output)
                    => decrypt_data(output)[i] = c.data[i]

\* The signature the speed patch of a mi4pro2nd token searches for.
TableSig(t) == IF t.name = "sls" THEN SigSportTable ELSE SigDriveTable

\* C14: sls and sld reject every speed outside [1.0, 39.5] km/h with an
\* error and leave the buffer unchanged, and they accept 1.0 and 39.5 (on a
\* mi4pro2nd image that holds the speed table).
C14_SpeedRangeIsEnforced ==
    (model = "mi4pro2nd" /\ calls # << >>) =>
        LET k == Len(calls)
            t == patches[k]
        IN  /\ (t.value < 10 \/ t.value > 395)
               => (calls[k].raised # "" /\ data = last)
            /\ (t.value \in {10, 395} /\ Find(last, TableSig(t)).status = "ok")
               => calls[k].raised = ""

\* C17: a speed patch applied twice in one session with the same speed
\* (e.g. [sls=25.5, sls=25.5]) succeeds both times, and the second
\* application leaves the buffer as the first left it.
C17_SpeedPatchTwiceIsOnce ==
    (/\ model = "mi4pro2nd"
     /\ Len(calls) = 2
     /\ patches[1] = patches[2]
     /\ calls[1].raised = "")
    => (calls[2].raised = "" /\ data = last)

-----------------------------------------------------------------------------
(* Further claims about patch_firmware sessions (checked under Spec).      *)

\* C12: when the N32 input carries the envelope, the buffer a session ending
\* in chk returns is header || finalized firmware || footer, the header and
\* the footer being those of the input byte for byte.
C12_EnvelopeIsReassembled ==
    (/\ Family(model) = "N32"
     /\ pc = "done"
     /\ image_header # << >>
     /\ patches # << >>
     /\ patches[Len(patches)].name = "chk")
    => /\ output = image_header[1] \o data \o image_footer[1]
       /\ image_header[1] = PySlice(input, 0, FIRMWARE_OFFSET)
       /\ image_footer[1] = PySlice(input, FIRMWARE_OFFSET + FIRMWARE_SIZE,
                                    Len(input))

-----------------------------------------------------------------------------
(* Claim about fake_drv_version (checked under SpecFdv).                   *)

\* C13: fake_drv_version(v) rejects every v that is not exactly four ASCII
\* digits with an invalid-parameter error (ValueError, of which
\* UnicodeEncodeError is a kind) and then leaves every byte as it was; it
\* accepts "0000" and "9999" where the version text is found.
C13_RejectsAllButFourAsciiDigits ==
    pc = "returned_fake_drv_version" =>
        LET v == args.v
            four_ascii_digits ==
                Len(v) = 4 /\ \A i \in 1..Len(v) : v[i] \in 48..57
        IN  /\ ~four_ascii_digits
               => /\ ret.raised \in {"ValueError", "UnicodeEncodeError"}
                  /\ ret.data = args.buf
            /\ (/\ v \in {<<48, 48, 48, 48>>, <<57, 57, 57, 57>>}
                /\ Find(args.buf, SigDrvVersion).status = "ok")
               => /\ ret.raised = ""
                  /\ PySlice(ret.data, 5, 9) = v

\* C15: with web = true an error raised while a token is processed aborts
\* the session: the call that raised is the last call, the token list is not
\* advanced, and patch_firmware raises that same error.
C15_WebErrorAborts ==
    web => \A k \in 1..Len(calls) :
               calls[k].raised # ""
               => /\ k = Len(calls)
                  /\ pc = "raised"
                  /\ ret = calls[k].raised
                  /\ idx < Len(patches)
                  /\ output = << >>

\* A web session aborted by its first token while a second one was waiting.
C15_Witness ==
    /\ web
    /\ pc = "raised"
    /\ Len(patches) = 2
    /\ Len(calls) = 1
    /\ idx = 0
    /\ calls[1].raised # ""
    /\ ret = calls[1].raised

\* C16: with web = false no patch-level error makes the session fail:
\* whatever tokens fail, every token of the list is processed and
\* patch_firmware returns the buffer.
C16_CliSessionNeverFails ==
    ~web => /\ pc # "raised"
            /\ pc = "done" => (idx = Len(patches) /\ output = data)

\* C19: every patch name of the grammar (the tokens of these sessions are
\* chk, rfm and slp) is dispatched to the capability of that name and never
\* recorded as nonexistent; slp=v on the mi5elite invokes speed_limit_ped.
C19_GrammarNamesAreDispatched ==
    /\ \A k \in 1..Len(errors) :
          errors[k].error # "The specified patch doesn't exist."
    /\ (model = "mi5elite" /\ idx >= 1 /\ patches[1].name = "slp")
       => (calls # << >> /\ calls[1].name = "speed_limit_ped")

\* No regional-serial tag of the mi5 occurs in the buffer.
NoRegionTag(buf) ==
    \A k \in 1..Len(SNS) : \A i \in 0..(Len(buf) - 4) :
        PySlice(buf, i, i + 4) # SNS[k]

\* C18: rfm on a firmware with no regional-serial signature raises the
\* pattern-not-found error (it does not return silently) and leaves the
\* buffer unchanged; stated for the LKS32 model of these sessions.
C18_RfmWithoutSignatureRaises ==
    (/\ Family(model) = "LKS32"
     /\ calls # << >>
     /\ calls[Len(calls)].name = "region_free"
     /\ NoRegionTag(last))
    => /\ calls[Len(calls)].raised = "SignatureException"
       /\ data = last

\* The offsets of the header (the bytes before the FF FF guard at 0x3C) at
\* which the last call changed a byte.
HeaderChanges == {i \in 0..59 : At(data, i) # At(last, i)}

\* fix_checksum was the last call, on an LKS32 or ES32 image, and returned.
HeaderChkDone ==
    /\ Family(model) \in {"LKS32", "ES32"}
    /\ calls # << >>
    /\ calls[Len(calls)] = [name |-> "fix_checksum", raised |-> ""]

\* C20 (as stated): the offset at which the header CRC is written never
\* exceeds 0x2E: no header byte after 0x2F is changed by fix_checksum.
C20_HeaderSlotAtMost2E ==
    HeaderChkDone => \A i \in HeaderChanges : i <= 47

\* C20 (amended): the header CRC is written at one of the slots 0xA, 0x1A,
\* 0x2A, 0x3A (0x13, 0x23, 0x33 when the first byte is 'T'), so at 0x3A
\* (0x33) at most: the walk tests "offset < 0x2E" before it advances, and
\* so advances once more from 0x2A (0x23).
C20_HeaderSlotIsOneOfTheSlots ==
    HeaderChkDone =>
        LET slots == IF At(last, 0) = 84 THEN {19, 35, 51}
                     ELSE {10, 26, 42, 58}
        IN  /\ \A i \in HeaderChanges : \E x \in slots : i \in {x, x + 1}
            /\ HeaderSlot(last, IF At(last, 0) = 84 THEN 19 ELSE 10) \in slots

\* A header CRC written at 0x3A, the slots at 0xA, 0x1A and 0x2A being zero.
C20_Witness ==
    /\ HeaderChkDone
    /\ At(last, 0) # 84
    /\ PySlice(last, 42, 44) = <<0, 0>>
    /\ HeaderChanges # {}
    /\ HeaderChanges \subseteq {58, 59}

\* The base of an LKS32 image (marker - 8), and the range the header CRC
\* covers: from the base on, as long as the first four bytes say (to the end
\* of the buffer when the first byte is 'T').
LKS32Base(buf) == Find(buf, LKS32Marker).index - 8
HeaderRangeSize(buf, base) ==
    IF At(buf, 0) = 84 THEN Len(buf) - base
    ELSE FromBytesBig(PySlice(buf, 0, 4))

\* fix_checksum was the last call, returned, and ran on an LKS32 image whose
\* two bytes before the base are FF FF.
LKS32ChkDone ==
    /\ Family(model) = "LKS32"
    /\ HeaderChkDone
    /\ Find(last, LKS32Marker).status = "ok"
    /\ PySlice(last, LKS32Base(last) - 2, LKS32Base(last)) = <<255, 255>>

LKS32CallsSuper(buf) ==
    LET f == Find(buf, LKS32Marker)
        ofs == f.index - 8
        size == FromBytesLittle(PySlice(buf, ofs, ofs + 4))
    IN  /\ f.status = "ok"
        /\ PySlice(buf, ofs - 2, ofs) = <<255, 255>>
        /\ ~LKS32ComputeChecksum(buf, ofs + 24, size).raised
ES32CallsSuper(buf) ==
    LET f == Find(buf, ES32Marker)
        ofs == f.index + 32
        size == FromBytesBig(PySlice(buf, ofs - 42, ofs - 40))
    IN  /\ f.status = "ok"
        /\ ~CoreComputeChecksum(buf, ofs + 80, size).raised
N32CallsSuper(buf) == FALSE

\* The last call of the session was fix_checksum and it returned.
ChkReturned ==
    /\ calls # << >>
    /\ calls[Len(calls)] = [name |-> "fix_checksum", raised |-> ""]

\* C22: a chk that ends has called the header routine of the base patcher
\* after its body checksum was stored, on every model (on LKS32 when the two
\* bytes before the base are FF FF, the case in which the routine runs).
C22_ChkCallsHeaderRoutine ==
    ChkReturned =>
        CASE Family(model) = "LKS32" ->
                 Find(last, LKS32Marker).status = "ok"
                 /\ PySlice(last, LKS32Base(last) - 2, LKS32Base(last))
                       = <<255, 255>>
                 => LKS32CallsSuper(last)
          [] Family(model) = "ES32" -> ES32CallsSuper(last)
          [] Family(model) = "N32" -> N32CallsSuper(last)
          [] OTHER -> TRUE

-----------------------------------------------------------------------------
(* LKS32Patcher.region_free on short buffers put together from the tags of *)
(* Mi5Patcher.SNS and other bytes, so that a tag can stand at index 0, at   *)
(* the end, and next to another one.                                        *)

RfmPieces == {SNS[1], SNS[2], <<5>>, <<132, 236>>}

RECURSIVE Flatten(_)
Flatten(ss) == IF ss = << >> THEN << >> ELSE Head(ss) \o Flatten(Tail(ss))

RfmBufs == {Flatten(ss) : ss \in SeqsUpTo(RfmPieces, MaxPieces)}

InitRfm ==
    /\ pc = "call_region_free"
    /\ args \in [buf : RfmBufs]
    /\ ret = [raised |-> "", data |-> << >>]
    /\ NoSession

CallRegionFree ==
    /\ pc = "call_region_free"
    /\ ret' = LKS32RegionFree(args.buf, SNS, 1)
    /\ pc' = "returned_region_free"
    /\ UNCHANGED <<args, sessionVars>>

NextRfm == CallRegionFree

SpecRfm == InitRfm /\ [][NextRfm]_vars

\* The indices at which a tag of SNS occurs in buf, and the bytes they cover.
TagAt(buf, i) == \E k \in 1..Len(SNS) : PySlice(buf, i, i + 4) = SNS[k]
TagIndices(buf) == {i \in 0..(Len(buf) - 4) : TagAt(buf, i)}
TagBytes(buf) == {j \in 0..(Len(buf) - 1) :
                      \E i \in TagIndices(buf) : j \in i..(i + 3)}

\* C23: after region_free returns no 4-byte occurrence of a tag remains at
\* any index, index 0 and the last four bytes included; the bytes of each
\* occurrence are zero and every other byte is unchanged.
C23_NoTagRemains ==
    pc = "returned_region_free" /\ ret.raised = "" =>
        /\ TagIndices(ret.data) = {}
        /\ Len(ret.data) = Len(args.buf)
        /\ \A j \in 0..(Len(args.buf) - 1) :
               At(ret.data, j) = IF j \in TagBytes(args.buf) THEN 0
                                 ELSE At(args.buf, j)

-----------------------------------------------------------------------------
(* Claims about the speed block of the mi5elite (checked under SpecSpeed).  *)

\* The plaintext firmware the session's patcher starts from.
StartFirmware == N32Init(input).data

\* Every call of the session so far was speed_limit_sport or
\* speed_limit_drive with a speed, on a mi5elite firmware that carries the
\* signatures the speed block needs.
SpeedCallsOnly ==
    /\ model = "mi5elite"
    /\ calls # << >>
    /\ CarriesSpeedSignatures(StartFirmware)
    /\ \A k \in 1..Len(calls) :
           /\ calls[k].name \in {"speed_limit_sport", "speed_limit_drive"}
           /\ patches[k].value \notin {None, 0}

\* The site of the 6-byte trampoline (12 bytes before the return signature)
\* and the start of the dispatch table (2 bytes after the destination
\* signature).
TrampolineSite == Find(StartFirmware, SIG_SPEED_LIMIT_RETURN).index - 12
TableStart ==
    Find(StartFirmware, SIG_SPEED_LIMIT_DST).index
        + Len(SIG_SPEED_LIMIT_DST) + 2

\* C24: in a sequence of speed_limit calls on one mi5elite patcher the first
\* call returns and writes the 6-byte trampoline (ldr r0,[pc,#n]; ldrb
\* r0,[r0,#0], the bytes 00 78; b table), and every later call returns and
\* leaves those six bytes as they are.
C24_TrampolineWrittenOnce ==
    SpeedCallsOnly =>
        /\ \A k \in 1..Len(calls) : calls[k].raised = ""
        /\ PySlice(data, TrampolineSite + 2, TrampolineSite + 4) = <<0, 120>>
        /\ Len(calls) > 1
           => PySlice(data, TrampolineSite, TrampolineSite + 6)
                 = PySlice(last, TrampolineSite, TrampolineSite + 6)

\* The number of the first mode of the fixed order ped(1), drive(2),
\* sport(3) that the session has patched so far.
FirstPatchedMode ==
    IF \E k \in 1..Len(calls) : calls[k].name = "speed_limit_drive" THEN 2
    ELSE 3

\* C25: after a sequence of speed_limit calls the dispatch table holds one
\* comparison block per mode patched so far in the order ped, drive, sport:
\* behind the 2-byte ldr r1 at its start stands "cmp r0,#m" (the bytes m,
\* 0x28) for the first patched mode m.
C25_TableHoldsPatchedModes ==
    SpeedCallsOnly =>
        PySlice(data, TableStart + 2, TableStart + 4)
            = <<FirstPatchedMode, 40>>

-----------------------------------------------------------------------------
(* Ultra4Patcher.motor_start_speed.                                         *)

\* round(x) of Python for x = h / 100: the nearest integer, the even one
\* when x lies halfway between two.
RoundHundredths(h) ==
    LET lo == h \div 100
        r == h % 100
    IN  IF r < 50 THEN lo
        ELSE IF r > 50 THEN lo + 1
        ELSE IF lo % 2 = 0 THEN lo ELSE lo + 1

\* "kmh = round(-0.36*speed**2-5.39*speed+68.6)*3"
MotorStartKmh(speed) ==
    RoundHundredths(6860 - 36 * speed * speed - 539 * speed) * 3

SigMotorStart == <<22, 224, None, 136, 73, None, None, 0, None, 66, 17, 210>>

\* self.assembly(f"movs r{reg}, #{kmh}"): the 16-bit Thumb encoding
\* 0x2000 | reg << 8 | kmh, low byte first, when kmh fits in 8 bits.  For
\* another value the assembler either rejects the operand or emits a longer
\* encoding, which "assert len(post) == 2" rejects.
AsmMovs(reg, kmh) ==
    IF kmh \in 0..255 THEN {[raised |-> "", post |-> <<kmh, 32 + reg>>]}
    ELSE {[raised |-> "KsError", post |-> << >>],
          [raised |-> "AssertionError", post |-> << >>]}

\* Ultra4Patcher.motor_start_speed(speed): the outcomes of the call.
Ultra4MotorStartSpeed(buf, speed) ==
    LET f == Find(buf, SigMotorStart)
        ofs == f.index + 4
        b == At(buf, ofs + 1)
        reg == IF b = 37 THEN 5 ELSE 6
    IN  IF ~(1 <= speed /\ speed <= 9)
           THEN {[raised |-> "AssertionError", data |-> buf]}
        ELSE IF f.status # "ok" THEN {[raised |-> f.status, data |-> buf]}
        ELSE IF b \notin {37, 38} THEN {[raised |-> "Exception", data |-> buf]}
        ELSE {[raised |-> a.raised,
               data |-> IF a.raised = "" THEN PyAssign(buf, ofs, ofs + 2, a.post)
                        ELSE buf] : a \in AsmMovs(reg, MotorStartKmh(speed))}

\* A buffer that holds the signature behind `prefix` bytes, with the byte b
\* at the place of the register test, or (b = None) a buffer without it.
MssBuf(prefix, b) ==
    IF b = None THEN Fill(14, 17)
    ELSE Fill(prefix, 17)
             \o <<22, 224, 17, 136, 73, b, 17, 0, 17, 66, 17, 210>>
             \o Fill(2, 17)

MssArgs ==
    [buf : {MssBuf(p, b) : p \in 0..MaxPrefix, b \in {37, 38, 39}}
               \cup {MssBuf(0, None)},
     speed : 0..10]

InitMss ==
    /\ pc = "call_motor_start_speed"
    /\ args \in MssArgs
    /\ ret = [raised |-> "", data |-> << >>]
    /\ NoSession

CallMotorStartSpeed ==
    /\ pc = "call_motor_start_speed"
    /\ ret' \in Ultra4MotorStartSpeed(args.buf, args.speed)
    /\ pc' = "returned_motor_start_speed"
    /\ UNCHANGED <<args, sessionVars>>

NextMss == CallMotorStartSpeed

SpecMss == InitMss /\ [][NextMss]_vars

\* C26: for every speed s in 1..9, on a firmware that holds the signature
\* with the byte 0x25 or 0x26, motor_start_speed(s) is accepted and writes
\* exactly the two bytes of "movs rN,#k" (k, 0x20 + N) at the patch site,
\* with k = round(-0.36*s^2 - 5.39*s + 68.6) * 3 in 0..255 and N = 5 for
\* 0x25, 6 for 0x26.
C26_MotorStartSpeedEncodes ==
    (/\ pc = "returned_motor_start_speed"
     /\ args.speed \in 1..9
     /\ Find(args.buf, SigMotorStart).status = "ok"
     /\ At(args.buf, Find(args.buf, SigMotorStart).index + 5) \in {37, 38})
    => LET ofs == Find(args.buf, SigMotorStart).index + 4
           k == MotorStartKmh(args.speed)
           N == At(args.buf, ofs + 1) - 32
       IN  /\ ret.raised = ""
           /\ k \in 0..255
           /\ ret.data = PyAssign(args.buf, ofs, ofs + 2, <<k, 32 + N>>)

-----------------------------------------------------------------------------
(* The patch records (name, offset, pre, post) that the fix_checksum        *)
(* routines return, for calls that return.                                   *)

\* CorePatcher.fix_checksum(start_ofs): None (no record) without FF FF, else
\* the record of the header slot.
CoreFixChecksumRecords(buf, start_ofs) ==
    LET r == CoreFixChecksum(buf, start_ofs)
        chk_ofs == HeaderSlot(buf, IF At(buf, 0) = 84 THEN 19 ELSE 10)
    IN  IF PySlice(buf, start_ofs - 2, start_ofs) # <<255, 255>> THEN << >>
        ELSE <<[name |-> "fix_checksum_header", offset |-> chk_ofs,
                pre |-> PySlice(buf, chk_ofs, chk_ofs + 2),
                post |-> PySlice(r.data, chk_ofs, chk_ofs + 2)]>>

\* LKS32Patcher.fix_checksum(): "return [("fix_checksum", hex(ofs), pre.hex(),
\* post.hex()), res]" with pre = data[ofs+4:ofs+8] and post the CRC-32.
LKS32FixChecksumRecords(buf) ==
    LET ofs == Find(buf, LKS32Marker).index - 8
        size == FromBytesLittle(PySlice(buf, ofs, ofs + 4))
        post == LKS32ComputeChecksum(buf, ofs + 24, size).value
    IN  IF PySlice(buf, ofs - 2, ofs) # <<255, 255>> THEN << >>
        ELSE <<[name |-> "fix_checksum", offset |-> ofs,
                pre |-> PySlice(buf, ofs + 4, ofs + 8), post |-> post]>>
             \o CoreFixChecksumRecords(PyAssign(buf, ofs + 4, ofs + 8, post),
                                       ofs)

\* ES32Patcher.fix_checksum(): the record is built after "ofs = ofs_ - 0x10".
ES32FixChecksumRecords(buf) ==
    LET ofs_ == Find(buf, ES32Marker).index
        ofs == ofs_ + 32
        size == FromBytesBig(PySlice(buf, ofs - 42, ofs - 40))
        post == CoreComputeChecksum(buf, ofs + 80, size).value
    IN  <<[name |-> "fix_checksum", offset |-> ofs_ - 16,
           pre |-> PySlice(buf, ofs, ofs + 2), post |-> post]>>
        \o CoreFixChecksumRecords(PyAssign(buf, ofs, ofs + 2, post), ofs_ - 16)

\* CoreN32Patcher.fix_checksum(): one record, of the two CRC bytes, taken
\* after the re-encryption.
N32FixChecksumRecords(buf, wasEncrypted) ==
    LET d == IF wasEncrypted /\ ~is_encrypted(buf) THEN encrypt_data(buf)
             ELSE buf
        offset == calculate_firmware_size(d) - 2
    IN  <<[name |-> "fix_checksum", offset |-> offset,
           pre |-> PySlice(d, offset, offset + 2),
           post |-> PySlice(patch_firmware_crc(d).data, offset, offset + 2)]>>

\* The records of the fix_checksum call that made data out of last.
ChkRecords ==
    CASE Family(model) = "LKS32" -> LKS32FixChecksumRecords(last)
      [] Family(model) = "ES32" -> ES32FixChecksumRecords(last)
      [] Family(model) = "N32" -> N32FixChecksumRecords(last, was_encrypted)

\* C27: every patch record of a fix_checksum call is faithful: pre is the
\* content of [offset, offset + |post|) before the call's edits, post the
\* content after them, and every byte the call changed lies in the range of
\* one of its records.
C27_RecordsAreFaithful ==
    ChkReturned =>
        /\ \A k \in 1..Len(ChkRecords) :
               LET r == ChkRecords[k]
               IN  /\ r.pre = PySlice(last, r.offset, r.offset + Len(r.post))
                   /\ r.post = PySlice(data, r.offset, r.offset + Len(r.post))
        /\ \A i \in 0..(Len(data) - 1) :
               At(data, i) # At(last, i)
               => \E k \in 1..Len(ChkRecords) :
                      i \in ChkRecords[k].offset
                              ..(ChkRecords[k].offset
                                   + Len(ChkRecords[k].post) - 1)

\* C30: a plaintext N32 firmware finalized by chk (plaintext in, plaintext
\* out with the CRC stored) is classified as plaintext again by the patcher
\* of a new session, so that session does not XOR it with 0xAA.
C30_PlaintextStaysPlaintext ==
    (/\ Family(model) = "N32"
     /\ pc = "done"
     /\ ~was_encrypted
     /\ image_header = << >>
     /\ ChkReturned)
    => LET next_session == N32Init(output)
       IN  /\ ~next_session.was_encrypted
           /\ next_session.data = output

\* C29: a capability call that fails leaves the patcher as it was before
\* the call: the buffer after a call that raised equals the buffer before
\* it, so in CLI mode the returned buffer holds only the edits of the
\* patches that completed.
C29_FailedCallChangesNothing ==
    (calls # << >> /\ calls[Len(calls)].raised # "") => data = last

-----------------------------------------------------------------------------
(* The speed patches of Mi5Patcher: a branch over the speed-limit code, a   *)
(* 4-byte literal in the code the branch skips, and an LDR that loads it.   *)

Mi5SigBranchSrc == <<89, 104, None, 74, None, 58, 145, 66>>
Mi5SigBranchSrcDst == <<245, 49, 65, 129, 112, 189>>
Mi5SigDst == <<89, 104, None, 74, None, 58, 145, 66, None, None>>
Mi5SigDrive == <<None, 73, 65, 130, 203, 37, 5, 128>>
Mi5SigSport == <<253, 33, 65, 128, None, 73, 129, 97>>

\* self.assembly(f"b {n}"): the 16-bit Thumb branch 0xE000 | (n - 4) / 2,
\* low byte first; a target that is odd or out of reach is an assembler
\* error.
AsmB(n) ==
    IF n % 2 = 0 /\ n - 4 >= -2048 /\ n - 4 <= 2046
       THEN [raised |-> "",
             post |-> ToBytesLittle(57344 + (((n - 4) \div 2) % 2048), 2)]
    ELSE [raised |-> "KsError", post |-> << >>]

\* self.assembly(f"ldr r{reg},[pc, #{imm}]"): the 16-bit Thumb literal load
\* 0x4800 | reg << 8 | imm / 4; a larger offset gets a 4-byte encoding, which
\* "assert len(post) == 2" rejects.
AsmLdr(reg, imm) ==
    IF imm % 4 = 0 /\ imm >= 0 /\ imm <= 1020
       THEN [raised |-> "", post |-> <<imm \div 4, 72 + reg>>]
    ELSE [raised |-> "AssertionError", post |-> << >>]

\* LKS32Patcher._calc_speed(kmh): int(kmh * 10) in four little-endian bytes
\* (the speed is given in tenths of km/h).
LKS32CalcSpeed(kmh) == ToBytesLittle(kmh, 4)

\* LKS32Patcher._branch_from_to(sig, sig_dst, description, dst_offset)
_branch_from_to(buf, sig, sig_dst, dst_offset) ==
    LET f == Find(buf, sig)
        ofs == f.index + Len(sig)
        g == FindAt(buf, sig_dst, ofs)
        ofs_dst == g.index + dst_offset
        post == AsmB(ofs_dst - ofs)
    IN  IF f.status # "ok" THEN [raised |-> f.status, data |-> buf]
        ELSE IF g.status # "ok" THEN [raised |-> g.status, data |-> buf]
        ELSE IF post.raised # "" THEN [raised |-> post.raised, data |-> buf]
        ELSE [raised |-> "", data |-> PyAssign(buf, ofs, ofs + 2, post.post)]

\* The part speed_limit_drive and speed_limit_sport of Mi5Patcher share: the
\* branch, then the LDR site ofs = find(sig) + site, the literal slot that
\* _safe_ldr gives for the destination find(sig_dst, start=ofs) +
\* len(sig_dst) + dst, the write of the literal, the write of the LDR.
Mi5SpeedLimit(buf, kmh, sig, site, dst, reg) ==
    LET b == _branch_from_to(buf, Mi5SigBranchSrc, Mi5SigBranchSrcDst, 4)
        f == Find(b.data, sig)
        ofs == f.index + site
        g == FindAt(b.data, Mi5SigDst, ofs)
        ofs_dst == g.index + Len(Mi5SigDst) + dst
        s == _safe_ldr(ofs, ofs_dst)
        withSpeed == PyAssign(b.data, s.lit, s.lit + 4, LKS32CalcSpeed(kmh))
        post == AsmLdr(reg, s.imm)
    IN  IF b.raised # "" THEN b
        ELSE IF f.status # "ok" THEN [raised |-> f.status, data |-> b.data]
        ELSE IF g.status # "ok" THEN [raised |-> g.status, data |-> b.data]
        ELSE IF s.raised THEN [raised |-> "ValueError", data |-> b.data]
        ELSE IF post.raised # ""
           THEN [raised |-> post.raised, data |-> withSpeed]
        ELSE [raised |-> "",
              data |-> PyAssign(withSpeed, ofs, ofs + 2, post.post)]

\* Mi5Patcher.speed_limit_drive(kmh) and speed_limit_sport(kmh)
Mi5SpeedLimitDrive(buf, kmh) == Mi5SpeedLimit(buf, kmh, Mi5SigDrive, 4, 0, 5)
Mi5SpeedLimitSport(buf, kmh) == Mi5SpeedLimit(buf, kmh, Mi5SigSport, 0, 4, 1)

\* The even numbers up to MaxGap: the lengths of the code between the
\* signatures of an image (Thumb code is halfword-aligned).
Gaps == {g \in 0..MaxGap : g % 2 = 0}

\* A mi5 firmware: the drive-limit code, the sport-limit code, the code the
\* branch is written behind (with the conditional branch it replaces), the
\* code the branch skips (12 bytes or more: room for the two literals), and
\* the destination of the branch; or (sigs FALSE) a firmware without them.
Mi5Image(p) ==
    IF ~p.sigs THEN Fill(16, 17)
    ELSE Fill(p.pre, 17)
             \o <<17, 73, 65, 130, 203, 37, 5, 128>> \o Fill(p.g1, 17)
             \o <<253, 33, 65, 128, 17, 73, 129, 97>> \o Fill(p.g2, 17)
             \o <<89, 104, 17, 74, 17, 58, 145, 66>> \o <<0, 208>>
             \o Fill(12 + p.g3, 17)
             \o Mi5SigBranchSrcDst \o Fill(2, 17)

Mi5Params ==
    [sigs : {TRUE}, pre : Gaps, g1 : Gaps, g2 : Gaps, g3 : Gaps]
    \cup [sigs : {FALSE}, pre : {0}, g1 : {0}, g2 : {0}, g3 : {0}]

\* A mi4 firmware with the signatures of Mi4Patcher.
Mi4Image ==
    <<202, 17, 17, 128, 17, 17, 185, 33, 17, 128>>
        \o <<252, 33, 65, 128, 120, 33, 129, 129>>
        \o <<32, 49, 17, 114, 15, 17, 17, 114>> \o <<0, 208>>
        \o Fill(12, 17) \o <<245, 49, 1, 131, 17, 72>>

\* sld and sls at 20.0, 25.5 and 36.7 km/h.
LksTokens ==
    {[name |-> "sld", value |-> 200], [name |-> "sld", value |-> 255],
     [name |-> "sls", value |-> 255], [name |-> "sls", value |-> 367]}

LksSessions ==
    {[model |-> "mi5", image |-> Mi5Image(p)] : p \in Mi5Params}
    \cup {[model |-> "mi4", image |-> Mi4Image]}

InitLks ==
    /\ pc = "construct"
    /\ args = << >>
    /\ ret = ""
    /\ \E s \in LksSessions : model = s.model /\ input = s.image
    /\ patches \in SeqsUpTo(LksTokens, MaxSpeedPatches)
    /\ web \in BOOLEAN
    /\ data = << >> /\ was_encrypted = FALSE
    /\ image_header = << >> /\ image_footer = << >>
    /\ idx = 0 /\ errors = << >> /\ calls = << >> /\ last = << >>
    /\ output = << >>

\* import_module(...) raising ImportError: patch_firmware ends before a
\* patcher exists.
ImportModuleFails ==
    /\ pc = "construct"
    /\ ImportFails(model)
    /\ pc' = "raised"
    /\ ret' = "ImportError"
    /\ UNCHANGED <<args, model, patches, web, input, data, was_encrypted,
                   image_header, image_footer, idx, errors, calls, last,
                   output>>

SpeedLimitDriveMi5 ==
    /\ InLoop /\ Patch.name = "sld" /\ model = "mi5"
    /\ \E r \in {WithValue(Mi5SpeedLimitDrive(data, Patch.value))} :
           Dispatched(r)

SpeedLimitSportMi5 ==
    /\ InLoop /\ Patch.name = "sls" /\ model = "mi5"
    /\ \E r \in {WithValue(Mi5SpeedLimitSport(data, Patch.value))} :
           Dispatched(r)

NextLks ==
    \/ ImportModuleFails
    \/ ConstructCore
    \/ SpeedLimitDriveMi5
    \/ SpeedLimitSportMi5
    \/ Return

SpecLks == InitLks /\ [][NextLks]_vars

\* The session applies one sld and one sls, in either order, to a firmware
\* that holds the signatures of its model.
SldAndSls ==
    /\ model \in {"mi4", "mi5"}
    /\ Len(patches) = 2
    /\ {patches[1].name, patches[2].name} = {"sld", "sls"}
    /\ input # Fill(16, 17)
    /\ pc \in {"done", "raised"}

\* The value of the token named n in a session of two tokens.
TokenValue(n) == IF patches[1].name = n THEN patches[1].value
                 ELSE patches[2].value

\* The byte ranges the two patches of a mi5 session write, from the input:
\* the branch, the two LDR instructions, the two literals.
Mi5BranchSite ==
    LET o == Find(input, Mi5SigBranchSrc).index + 8 IN o..(o + 1)
Mi5DriveLdr == LET o == Find(input, Mi5SigDrive).index + 4 IN o..(o + 1)
Mi5SportLdr == LET o == Find(input, Mi5SigSport).index IN o..(o + 1)
Mi5DriveSlot ==
    LET o == Find(input, Mi5SigDrive).index + 4
        d == FindAt(input, Mi5SigDst, o).index + 10
        l == _safe_ldr(o, d).lit
    IN  l..(l + 3)
Mi5SportSlot ==
    LET o == Find(input, Mi5SigSport).index
        d == FindAt(input, Mi5SigDst, o).index + 14
        l == _safe_ldr(o, d).lit
    IN  l..(l + 3)
Mi5Ranges ==
    <<Mi5BranchSite, Mi5DriveLdr, Mi5SportLdr, Mi5DriveSlot, Mi5SportSlot>>

\* The four bytes of the output at a literal slot.
SlotBytes(slot) ==
    PySlice(output, CHOOSE i \in slot : \A j \in slot : i <= j,
            1 + CHOOSE i \in slot : \A j \in slot : i >= j)

\* C28: on the LKS32 models a session [sld=a, sls=b], in either order, ends
\* with both patches applied; the ranges they write (branch, two LDR
\* instructions, drive literal, sport literal) are pairwise disjoint, only
\* those bytes change, and the drive literal holds a, the sport literal b.
C28_SldAndSlsDoNotCollide ==
    SldAndSls =>
        /\ pc = "done"
        /\ errors = << >>
        /\ model = "mi5"
           => /\ \A i, j \in 1..5 : i # j => Mi5Ranges[i] \cap Mi5Ranges[j] = {}
              /\ SlotBytes(Mi5DriveSlot) = LKS32CalcSpeed(TokenValue("sld"))
              /\ SlotBytes(Mi5SportSlot) = LKS32CalcSpeed(TokenValue("sls"))
              /\ \A i \in 0..(Len(input) - 1) :
                     At(output, i) # At(input, i)
                     => \E k \in 1..5 : i \in Mi5Ranges[k]

=============================================================================
